---- MODULE Spec2Model ----
(***************************************************************************)
(* Model of node-minitrace: the deferred trace queue of the packages       *)
(* trace-console, trace-color (both in packages/trace-console/index.js)    *)
(* and trace-log (packages/trace-log/idex.js).                             *)
(*                                                                         *)
(* A JavaScript string is a sequence of one-character strings.  The        *)
(* message queue is the linked list of the source: `heap` holds the        *)
(* Message objects in allocation order, ctx.head / ctx.tail / next are     *)
(* indices into it and NULL is the null reference.                         *)
(***************************************************************************)
EXTENDS Integers, Sequences, FiniteSets, TLC

VARIABLES
  pkg,    \* the package under test
  env,    \* what the process offers: color support and the streams' isTTY
  ctx,    \* its private data
  heap,   \* the Message objects, in allocation order
  pc,     \* "run" while the application runs, "exit" once 'exit' is emitted
  fired,  \* number of 'exit' listeners called so far
  out,    \* the console calls made so far
  sev,    \* history: for each Message, the severity of the call that made it
  last,   \* history: the latest call and the nesting level it started from
  prog,   \* the test program src/index.js: its position and its variables
  twin,   \* the other deferred packages, run side by side on the same calls
  colorlog \* the package color-log, run side by side on the same calls

vars == <<pkg, env, ctx, heap, pc, fired, out, sev, last, prog, twin, colorlog>>

\* ------------------------------------------------------------------ bounds
\* Largest number of Message objects allocated in one run.
MaxQueue == 3
\* Largest nesting level reached in one run.
MaxLevel == 1
\* The same two bounds in the specification SpecScope.
MaxScopeQueue == 4
MaxScopeLevel == 2
\* Largest number of Message objects in the specification SpecWords.
MaxWordsQueue == 2
\* Longest string given to enter in the specification SpecWords.
MaxStrLen == 3
\* Largest number of Message objects and largest nesting level in the
\* specification SpecLines.
MaxLinesQueue == 2
MaxLinesLevel == 2
\* The same two bounds in the specification SpecDrain.
MaxDrainQueue == 2
MaxDrainLevel == 2
\* The same two bounds in the specification SpecSide.
MaxSideQueue == 2
MaxSideLevel == 2

\* --------------------------------------------------------------- constants
NULL == 0
LOG == 1
WARN == 2
ERROR == 3
\* trace-log's Message has no type field.
NOTYPE == 0
IndentSizeInit == 2
HeaderWidth == 80

\* The value of an absent JavaScript string (Array.prototype.pop on []).
Undefined == <<"undefined-value">>

Packages == {"trace-console", "trace-color", "trace-log"}

\* ------------------------------------------------------------ JS helpers
\* [A-Za-z0-9_], the class \w of the regular expression in enter.
WordChars ==
  {"a","b","c","d","e","f","g","h","i","j","k","l","m","n","o","p","q","r",
   "s","t","u","v","w","x","y","z","A","B","C","D","E","F","G","H","I","J",
   "K","L","M","N","O","P","Q","R","S","T","U","V","W","X","Y","Z","0","1",
   "2","3","4","5","6","7","8","9","_"}

\* repeat(str, count): count copies of the one-character string str.
repeat(str, count) == [i \in 1..count |-> str]

\* Variant of Truthy: only '' is falsy (the test str !== '').
TruthyDefined(s) == s # <<>>

\* A JavaScript string used as a condition: '' and undefined are falsy.
Truthy(s) == s # Undefined /\ s # <<>>

\* Variant of join2: no separator between the two strings.
join2NoSpace(str1, str2) ==
  IF Truthy(str1)
    THEN IF Truthy(str2) THEN str1 \o str2 ELSE str1
    ELSE IF str2 = Undefined THEN <<>> ELSE str2

join2(str1, str2) ==
  IF Truthy(str1)
    THEN IF Truthy(str2) THEN str1 \o <<" ">> \o str2 ELSE str1
    ELSE IF str2 = Undefined THEN <<>> ELSE str2

\* The decimal digits of the natural number n.
RECURSIVE Dec(_)
Dec(n) ==
  LET digit == <<"0", "1", "2", "3", "4", "5", "6", "7", "8", "9">>[(n % 10) + 1]
  IN IF n < 10 THEN <<digit>> ELSE Append(Dec(n \div 10), digit)

\* Arguments that are not strings: the number n and an Error object with
\* the given message; each one is a tag followed by its data.
Num(n) == <<"number:">> \o Dec(n)
ErrorObject(message) == <<"error:">> \o message
IsNum(v) == v # <<>> /\ Head(v) = "number:"
IsError(v) == v # <<>> /\ Head(v) = "error:"

\* util.inspect of a value that is not a format string: the stack of an
\* Error is its name and message followed by the call sites, one token here.
inspect(v) ==
  IF IsError(v)
    THEN <<"E", "r", "r", "o", "r", ":", " ">> \o Tail(v) \o <<"\n", "    at <call sites>">>
  ELSE IF IsNum(v) THEN Tail(v)
  ELSE IF v = Undefined THEN <<"u", "n", "d", "e", "f", "i", "n", "e", "d">>
  ELSE v

\* The text util.format puts in place of %d and %s for the value v.
formatValue(directive, v) ==
  IF directive = "d"
    THEN IF IsNum(v) THEN Tail(v)
         \* Number(v) of a string: '' is 0, a plain numeral is its number.
         ELSE IF v = <<>> THEN <<"0">>
         ELSE IF v # Undefined /\ ~IsError(v)
                 /\ \A k \in 1..Len(v) : v[k] \in {"0","1","2","3","4","5","6","7","8","9"}
                 /\ (Len(v) = 1 \/ v[1] # "0")
           THEN v
         ELSE <<"N", "a", "N">>
    ELSE inspect(v)

\* util.format with a format string t and the further arguments vs: %d and
\* %s take the next argument, %% is a percent sign, the arguments left
\* over are appended after a space each.
RECURSIVE formatWith(_, _)
formatWith(t, vs) ==
  IF t = <<>>
    THEN IF vs = <<>> THEN <<>>
         ELSE <<" ">> \o inspect(Head(vs)) \o formatWith(t, Tail(vs))
  ELSE IF Head(t) = "%" /\ Len(t) >= 2 /\ t[2] = "%"
    THEN <<"%">> \o formatWith(SubSeq(t, 3, Len(t)), vs)
  ELSE IF Head(t) = "%" /\ Len(t) >= 2 /\ t[2] \in {"d", "s"} /\ vs # <<>>
    THEN formatValue(t[2], Head(vs)) \o formatWith(SubSeq(t, 3, Len(t)), Tail(vs))
  ELSE <<Head(t)>> \o formatWith(Tail(t), vs)

\* util.format applied to the argument list args: no argument gives '',
\* one string argument gives that string.
format(args) ==
  IF Len(args) = 0 THEN <<>>
  ELSE IF IsError(args[1]) \/ IsNum(args[1])
    THEN inspect(args[1]) \o formatWith(<<>>, Tail(args))
  ELSE IF Len(args) = 1 THEN args[1]
  ELSE formatWith(args[1], Tail(args))

\* Variant of match: the regular expression /\S+/ (a whitespace-delimited token).
matchToken(message) ==
  LET ws == {" ", "\n", "\t"}
      starts == {i \in 1..Len(message) : message[i] \notin ws}
  IN IF starts = {} THEN Undefined
     ELSE LET s == CHOOSE i \in starts : \A j \in starts : i <= j
              ends == {e \in s..Len(message) :
                         /\ \A k \in s..e : message[k] \notin ws
                         /\ (e = Len(message) \/ message[e + 1] \in ws)}
              e == CHOOSE x \in ends : TRUE
          IN SubSeq(message, s, e)

\* message.match(/\w+/): the leftmost maximal run of word characters,
\* Undefined when there is none (match returns null).
match(message) ==
  LET starts == {i \in 1..Len(message) : message[i] \in WordChars}
  IN IF starts = {} THEN Undefined
     ELSE LET s == CHOOSE i \in starts : \A j \in starts : i <= j
              ends == {e \in s..Len(message) :
                         /\ \A k \in s..e : message[k] \in WordChars
                         /\ (e = Len(message) \/ message[e + 1] \notin WordChars)}
              e == CHOOSE x \in ends : TRUE
          IN SubSeq(message, s, e)

\* ------------------------------------------------------------ the module
File(p) == IF p = "trace-log" THEN "packages/trace-log/idex.js"
                              ELSE "packages/trace-console/index.js"

\* Number of process.on('exit', show) statements executed when the file
\* holding package p is loaded.
ExitListeners(p) == IF File(p) = "packages/trace-console/index.js" THEN 2 ELSE 1

Message(text, width, type) ==
  [next |-> NULL, text |-> text, width |-> width, type |-> type]

\* Variant of MessageNoType: the width is not stored.
MessageNoWidth(text, width) ==
  [next |-> NULL, text |-> text, width |-> 0, type |-> NOTYPE]

\* trace-log's Message(text, width): no type field.
MessageNoType(text, width) ==
  [next |-> NULL, text |-> text, width |-> width, type |-> NOTYPE]

\* new Message(...) as written in the file of package p.
newMessage(p, text, width, type) ==
  IF p = "trace-log" THEN MessageNoType(text, width) ELSE Message(text, width, type)

CtxInit ==
  [indentSize |-> IndentSizeInit, indentLevel |-> 0, indentWidth |-> 0,
   head |-> NULL, tail |-> NULL, names |-> <<>>]

\* Variant of write: the new message is linked in front of the queue.
writeAtHead(S, text, type) ==
  LET message == [newMessage(S.pkg, text, S.ctx.indentWidth, type) EXCEPT !.next = S.ctx.head]
      id == Len(S.heap) + 1
  IN [S EXCEPT !.ctx = [S.ctx EXCEPT !.head = id,
                                     !.tail = IF S.ctx.head = NULL THEN id ELSE S.ctx.tail],
                !.heap = Append(S.heap, message)]

\* Variant of write: the message is stamped with the level, not the width.
writeStampLevel(S, text, type) ==
  LET message == newMessage(S.pkg, text, S.ctx.indentLevel, type)
      id == Len(S.heap) + 1
      heap1 == Append(S.heap, message)
  IN IF S.ctx.head = NULL
       THEN [S EXCEPT !.ctx = [S.ctx EXCEPT !.head = id, !.tail = id], !.heap = heap1]
       ELSE [S EXCEPT !.ctx = [S.ctx EXCEPT !.tail = id],
                     !.heap = [heap1 EXCEPT ![S.ctx.tail].next = id]]

\* Variant of write: the old tail is not linked to the new message.
writeDropLink(S, text, type) ==
  LET message == newMessage(S.pkg, text, S.ctx.indentWidth, type)
      id == Len(S.heap) + 1
      heap1 == Append(S.heap, message)
  IN IF S.ctx.head = NULL
       THEN [S EXCEPT !.ctx = [S.ctx EXCEPT !.head = id, !.tail = id], !.heap = heap1]
       ELSE [S EXCEPT !.ctx = [S.ctx EXCEPT !.tail = id], !.heap = heap1]

\* Variant of write: ctx.tail is set for the first message only.
writeNoTail(S, text, type) ==
  LET message == newMessage(S.pkg, text, S.ctx.indentWidth, type)
      id == Len(S.heap) + 1
      heap1 == Append(S.heap, message)
  IN IF S.ctx.head = NULL
       THEN [S EXCEPT !.ctx = [S.ctx EXCEPT !.head = id, !.tail = id], !.heap = heap1]
       ELSE [S EXCEPT !.heap = [heap1 EXCEPT ![S.ctx.tail].next = id]]

\* A state S of a module: its private data S.ctx, the Message objects
\* S.heap and the package S.pkg whose code runs.
write(S, text, type) ==
  LET message == newMessage(S.pkg, text, S.ctx.indentWidth, type)
      id == Len(S.heap) + 1
      heap1 == Append(S.heap, message)
  IN IF S.ctx.head = NULL
       THEN [S EXCEPT !.ctx = [S.ctx EXCEPT !.head = id, !.tail = id], !.heap = heap1]
       ELSE [S EXCEPT !.ctx = [S.ctx EXCEPT !.tail = id],
                     !.heap = [heap1 EXCEPT ![S.ctx.tail].next = id]]

log(S, args) == write(S, format(args), LOG)

warn(S, args) == write(S, format(args), WARN)

error(S, args) == write(S, format(args), ERROR)

\* Variant of indentOp: the level is raised before the message is enqueued.
indentOpRaiseFirst(S, args) ==
  LET level == S.ctx.indentLevel + 1
      S1 == [S EXCEPT !.ctx.indentLevel = level,
                      !.ctx.indentWidth = level * S.ctx.indentSize]
  IN IF Len(args) > 0 THEN log(S1, args) ELSE S1

\* Variant of ignore: the arguments are logged.
ignoreAsLog(S, args) == log(S, args)

\* exports.ignore: an empty function.
ignore(S, args) == S

indentOp(S, args) ==
  LET S1 == IF Len(args) > 0 THEN log(S, args) ELSE S
      level == S1.ctx.indentLevel + 1
  IN [S1 EXCEPT !.ctx.indentLevel = level,
                !.ctx.indentWidth = level * S1.ctx.indentSize]

\* Variant of unindent: no test of the level.
unindentNoFloor(S) ==
  [S EXCEPT !.ctx.indentLevel = S.ctx.indentLevel - 1,
            !.ctx.indentWidth = (S.ctx.indentLevel - 1) * S.ctx.indentSize]

\* Variant of unindent: the level is decreased, the width is not recomputed.
unindentKeepWidth(S) ==
  IF S.ctx.indentLevel > 0
    THEN [S EXCEPT !.ctx.indentLevel = S.ctx.indentLevel - 1]
    ELSE S

unindent(S) ==
  IF S.ctx.indentLevel > 0
    THEN [S EXCEPT !.ctx.indentLevel = S.ctx.indentLevel - 1,
                   !.ctx.indentWidth = (S.ctx.indentLevel - 1) * S.ctx.indentSize]
    ELSE S

\* Variant of enter: the line is enqueued only when arguments were given.
enterSkipEmpty(S, args) ==
  LET message == format(args)
      m == match(message)
      S1 == [S EXCEPT !.ctx.names = Append(S.ctx.names,
                                           IF m # Undefined THEN m ELSE message)]
      text == <<">">> \o repeat(" ", S.ctx.indentSize - 1) \o message
  IN indentOp(IF Len(args) > 0 THEN write(S1, text, LOG) ELSE S1, <<>>)

\* Variant of enter: the indentation is increased before the line is enqueued.
enterIndentFirst(S, args) ==
  LET message == format(args)
      m == match(message)
      S1 == [S EXCEPT !.ctx.names = Append(S.ctx.names,
                                           IF m # Undefined THEN m ELSE message)]
      text == <<">">> \o repeat(" ", S.ctx.indentSize - 1) \o message
  IN write(indentOp(S1, <<>>), text, LOG)

enter(S, args) ==
  LET message == format(args)
      m == match(message)
      S1 == [S EXCEPT !.ctx.names = Append(S.ctx.names,
                                           IF m # Undefined THEN m ELSE message)]
      text == <<">">> \o repeat(" ", S.ctx.indentSize - 1) \o message
  IN indentOp(write(S1, text, LOG), <<>>)

\* Variant of pop: names.shift()'s value, the oldest name.
popFirst(names) == IF Len(names) = 0 THEN Undefined ELSE names[1]

\* names.pop(): the value returned, Undefined on an empty array ...
pop(names) == IF Len(names) = 0 THEN Undefined ELSE names[Len(names)]

\* Variant of popped: the array is emptied.
poppedAll(names) == <<>>

\* ... and the array it leaves.
popped(names) == IF Len(names) = 0 THEN names ELSE SubSeq(names, 1, Len(names) - 1)

\* Variant of leave: the name is read but stays on the stack.
leaveNoPop(S, args) ==
  LET message == format(args)
      name == pop(S.ctx.names)
      text == <<"<">> \o repeat(" ", S.ctx.indentSize - 1) \o join2(name, message)
  IN write(unindent(S), text, LOG)

\* Variant of leave: the line is enqueued before the indentation is decreased.
leaveWriteFirst(S, args) ==
  LET message == format(args)
      name == pop(S.ctx.names)
      S1 == [S EXCEPT !.ctx.names = popped(S.ctx.names)]
      text == <<"<">> \o repeat(" ", S.ctx.indentSize - 1) \o join2(name, message)
  IN unindent(write(S1, text, LOG))

\* Variant of leave: the indentation is not decreased.
leaveNoUnindent(S, args) ==
  LET message == format(args)
      name == pop(S.ctx.names)
      S1 == [S EXCEPT !.ctx.names = popped(S.ctx.names)]
      text == <<"<">> \o repeat(" ", S.ctx.indentSize - 1) \o join2(name, message)
  IN write(S1, text, LOG)

\* Variant of leave: at level 0 no name is taken off the stack.
leaveGuarded(S, args) ==
  LET message == format(args)
      open == S.ctx.indentLevel > 0
      name == IF open THEN pop(S.ctx.names) ELSE Undefined
      S1 == IF open THEN [S EXCEPT !.ctx.names = popped(S.ctx.names)] ELSE S
      text == <<"<">> \o repeat(" ", S.ctx.indentSize - 1) \o join2(name, message)
  IN write(unindent(S1), text, LOG)

leave(S, args) ==
  LET message == format(args)
      name == pop(S.ctx.names)
      S1 == [S EXCEPT !.ctx.names = popped(S.ctx.names)]
      text == <<"<">> \o repeat(" ", S.ctx.indentSize - 1) \o join2(name, message)
  IN write(unindent(S1), text, LOG)

\* ----------------------------------------------------------------- drain
\* Variant of indent: the indentation is put in front of the text only.
indentFirstLine(indentation, text) == indentation \o text

\* Inserts indentation at the beginning of every line of text.
indent(indentation, text) ==
  IF Len(indentation) # 0
    THEN LET RECURSIVE replace(_)
             replace(t) ==
               IF t = <<>> THEN <<>>
               ELSE IF Head(t) = "\n"
                      THEN <<"\n">> \o indentation \o replace(Tail(t))
                      ELSE <<Head(t)>> \o replace(Tail(t))
         IN indentation \o replace(text)
    ELSE text

\* What the Printer constructor reads from the process: the TERM / platform
\* probe and the isTTY flags of the two streams.
Envs == [hascolor : BOOLEAN, outTTY : BOOLEAN, errTTY : BOOLEAN]

\* A process without color support, one with color on both streams and one
\* whose standard output is redirected.
PlainEnv == [hascolor |-> FALSE, outTTY |-> TRUE, errTTY |-> TRUE]
RunEnvs == {PlainEnv,
            [hascolor |-> TRUE, outTTY |-> TRUE, errTTY |-> TRUE],
            [hascolor |-> TRUE, outTTY |-> FALSE, errTTY |-> TRUE]}

\* ANSI escape sequences, each one token.
White == "ESC[37m"
Yellow == "ESC[33m"
Red == "ESC[31m"
Reset == "ESC[39m"
StyleCodes == {White, Yellow, Red, Reset}

\* Printer: the styles of trace-color; null is the empty sequence.
Printer(e) ==
  LET outcolor == e.hascolor /\ e.outTTY
      errcolor == e.hascolor /\ e.errTTY
  IN [log |-> IF outcolor THEN <<White, Reset>> ELSE <<>>,
      warn |-> IF errcolor THEN <<Yellow, Reset>> ELSE <<>>,
      error |-> IF errcolor THEN <<Red, Reset>> ELSE <<>>]

\* One call of console.log / console.warn / console.error.
Call(fn, text) == [fn |-> fn, text |-> text]

\* Printer.prototype.log / warn / error.
printerPrint(printer, fn, message) ==
  IF printer[fn] # <<>>
    THEN Call(fn, <<printer[fn][1]>> \o message \o <<printer[fn][2]>>)
    ELSE Call(fn, message)

\* Variant of print: warnings go to console.log.
printWarnAsLog(e, m, text) ==
  LET fn == IF m.type = LOG \/ m.type = WARN THEN "log" ELSE "error"
  IN IF pkg = "trace-log" THEN Call("log", text)
     ELSE IF pkg = "trace-color" THEN printerPrint(Printer(e), fn, text)
     ELSE Call(fn, text)

\* The console call a package's show makes for message m.
print(e, m, text) ==
  LET fn == IF m.type = LOG THEN "log" ELSE IF m.type = WARN THEN "warn" ELSE "error"
  IN IF pkg = "trace-log" THEN Call("log", text)
     ELSE IF pkg = "trace-color" THEN printerPrint(Printer(e), fn, text)
     ELSE Call(fn, text)

\* The header line of show.
header(e) ==
  IF pkg = "trace-color" THEN printerPrint(Printer(e), "log", repeat("-", HeaderWidth))
                         ELSE Call("log", repeat("-", HeaderWidth))

\* Variant of iterations: indentwidth is not updated when the indentation
\* is rebuilt.
RECURSIVE iterationsStale(_, _, _, _)
iterationsStale(h, curr, indentwidth, indentation) ==
  LET m == h[curr]
      changed == m.width # indentwidth
      ind == IF changed THEN repeat(" ", m.width) ELSE indentation
  IN <<[curr |-> curr, indentwidth |-> indentwidth, indentation |-> ind,
        rebuilt |-> changed]>> \o
     (IF m.next # NULL THEN iterationsStale(h, m.next, indentwidth, ind) ELSE <<>>)

\* The do ... while loop of show, from message curr on: for each
\* iteration, the message and the local variables at the moment of the
\* console call, and whether the indentation was rebuilt in the iteration.
RECURSIVE iterations(_, _, _, _)
iterations(h, curr, indentwidth, indentation) ==
  LET m == h[curr]
      changed == m.width # indentwidth
      iw == IF changed THEN m.width ELSE indentwidth
      ind == IF changed THEN repeat(" ", iw) ELSE indentation
  IN <<[curr |-> curr, indentwidth |-> iw, indentation |-> ind,
        rebuilt |-> changed]>> \o
     (IF m.next # NULL THEN iterations(h, m.next, iw, ind) ELSE <<>>)

\* The console calls of the loop.
showLoop(h, e, curr, indentwidth, indentation) ==
  LET its == iterations(h, curr, indentwidth, indentation)
  IN [k \in 1..Len(its) |->
        print(e, h[its[k].curr], indent(its[k].indentation, h[its[k].curr].text))]

\* Variant of show: no header line.
showNoHeader(S, e) ==
  IF S.ctx.head # NULL
    THEN showLoop(S.heap, e, S.ctx.head, 0, <<>>)
    ELSE <<>>

\* show: the console calls it makes, in order.
show(S, e) ==
  IF S.ctx.head # NULL
    THEN <<header(e)>> \o showLoop(S.heap, e, S.ctx.head, 0, <<>>)
    ELSE <<>>

\* The stream a console function writes to.
Channel(fn) == IF fn = "log" THEN "stdout" ELSE "stderr"

\* ------------------------------------------------------------- color-log
\* The package color-log prints at once.  A state C of the module: whether
\* console.group and console.groupEnd exist (C.group), the module variable
\* indentation, the group depth kept by the console itself and the console
\* calls made so far.

\* styles: the probe is the one of Printer; log has no style.
styles(e) ==
  [log |-> <<>>,
   warn |-> IF e.hascolor THEN <<Yellow, Reset>> ELSE <<>>,
   error |-> IF e.hascolor THEN <<Red, Reset>> ELSE <<>>]

\* indent(text) of color-log.
colorIndent(C, text) ==
  IF C.group THEN text
  ELSE IF Len(C.indentation) # 0 THEN indent(C.indentation, text)
  ELSE text

\* Variant of colorPrint: the isTTY flag of the stream is not read.
colorPrintNoTTY(C, e, fn, args) ==
  LET message == format(args)
      style == styles(e)[fn]
  IN [C EXCEPT !.out = Append(@,
        IF style # <<>>
          THEN Call(fn, <<style[1]>> \o colorIndent(C, message) \o <<style[2]>>)
          ELSE Call(fn, colorIndent(C, message)))]

\* exports.log / exports.warn / exports.error of color-log, fn telling which.
colorPrint(C, e, fn, args) ==
  LET message == format(args)
      isTTY == IF fn = "log" THEN e.outTTY ELSE e.errTTY
      style == IF isTTY THEN styles(e)[fn] ELSE <<>>
  IN [C EXCEPT !.out = Append(@,
        IF style # <<>>
          THEN Call(fn, <<style[1]>> \o colorIndent(C, message) \o <<style[2]>>)
          ELSE Call(fn, colorIndent(C, message)))]

\* Variant of colorGroup: one space for each level.
colorGroupOneSpace(C, e, args) ==
  LET C1 == IF Len(args) > 0 THEN colorPrint(C, e, "log", args) ELSE C
  IN IF C.group THEN [C1 EXCEPT !.depth = @ + 1]
                ELSE [C1 EXCEPT !.indentation = @ \o <<" ">>]

\* exports.group of color-log.
colorGroup(C, e, args) ==
  LET C1 == IF Len(args) > 0 THEN colorPrint(C, e, "log", args) ELSE C
  IN IF C.group THEN [C1 EXCEPT !.depth = @ + 1]
                ELSE [C1 EXCEPT !.indentation = @ \o <<" ", " ">>]

\* exports.groupEnd of color-log; console.groupEnd does nothing at depth 0.
colorGroupEnd(C) ==
  IF C.group THEN [C EXCEPT !.depth = IF @ > 0 THEN @ - 1 ELSE 0]
  ELSE IF Len(C.indentation) # 0
    THEN [C EXCEPT !.indentation = SubSeq(@, 1, Len(@) - 2)]
  ELSE C

\* enter and leave of src/index.js for a package without enter and leave.
wrapEnter(C, e, args) == colorGroup(C, e, args)

wrapLeave(C, e, args) == colorPrint(colorGroupEnd(C), e, "log", args)

\* ---------------------------------------------------------------- inputs
\* An argument list is a sequence of strings; NoArgs is a call without arguments.
NoArgs == <<>>
LogArgs == {<<<<"x">>>>}
IndentArgs == {NoArgs, <<<<"x">>>>}
EnterArgs == {<<<<"a">>>>}
LeaveArgs == {NoArgs}
ScopeEnterArgs == {<<<<"a">>>>, <<<<"b">>>>}
ScopeLeaveArgs == {NoArgs}

\* All strings over Alphabet of length at most n.
Alphabet == {"a", "-", " "}
RECURSIVE Strings(_)
Strings(n) ==
  IF n = 0 THEN {<<>>}
  ELSE LET shorter == Strings(n - 1)
       IN shorter \cup {Append(w, c) : w \in {v \in shorter : Len(v) = n - 1}, c \in Alphabet}
WordArgs == {NoArgs} \cup {<<w>> : w \in Strings(MaxStrLen)}

Cur == [ctx |-> ctx, heap |-> heap, pkg |-> pkg]

\* The state once the package is loaded.
Loaded ==
  /\ pkg \in Packages
  \* Only trace-color reads the environment.
  /\ env \in IF pkg = "trace-color" THEN RunEnvs ELSE {PlainEnv}
  /\ ctx = CtxInit
  /\ heap = <<>>
  /\ pc = "run"
  /\ fired = 0
  /\ out = <<>>
  /\ sev = <<>>
  /\ last = [op |-> "load", level |-> 0]

\* No test program: the calls come in any order.
NoProgram == [pc |-> "none", tests |-> 0, i |-> 0, frames |-> <<>>, ret |-> 0,
              thrown |-> FALSE]

\* No package runs side by side.
NoTwin == <<>>
NoColorLog == [group |-> FALSE, indentation |-> <<>>, depth |-> 0, out |-> <<>>]
Alone == twin = NoTwin /\ colorlog = NoColorLog

Init == Loaded /\ prog = NoProgram /\ Alone

\* A trace call op leaves the private data as S; fn is its severity.
Step(S, op, fn) ==
  /\ pc = "run"
  /\ ctx' = S.ctx
  /\ heap' = S.heap
  /\ sev' = IF Len(S.heap) > Len(heap) THEN Append(sev, fn) ELSE sev
  /\ last' = [op |-> op, level |-> ctx.indentLevel]
  /\ UNCHANGED <<pkg, env, pc, fired, out>>

\* A trace call made by any caller.
Apply(S, op, fn) == Step(S, op, fn) /\ UNCHANGED <<prog, twin, colorlog>>

Log(args) == Apply(log(Cur, args), "log", "log")

Warn(args) == Apply(warn(Cur, args), "warn", "warn")

Error(args) == Apply(error(Cur, args), "error", "error")

Ignore(args) == Apply(ignore(Cur, args), "ignore", "log")

\* exports.indent, also exported as group.
Indent(args) == Apply(indentOp(Cur, args), "indent", "log")

\* exports.unindent, also exported as groupEnd.
Unindent == Apply(unindent(Cur), "unindent", "log")

Enter(args) == Apply(enter(Cur, args), "enter", "log")

Leave(args) == Apply(leave(Cur, args), "leave", "log")

\* The application code has finished: the process emits 'exit'.
Exit ==
  /\ pc = "run"
  /\ pc' = "exit"
  /\ last' = [op |-> "exit", level |-> ctx.indentLevel]
  /\ UNCHANGED <<pkg, env, ctx, heap, fired, out, sev, prog, twin, colorlog>>

\* The next registered 'exit' listener is called.
Show ==
  /\ pc = "exit" /\ fired < ExitListeners(pkg)
  /\ out' = out \o show(Cur, env)
  /\ fired' = fired + 1
  /\ last' = [op |-> "show", level |-> ctx.indentLevel]
  /\ UNCHANGED <<pkg, env, ctx, heap, pc, sev, prog, twin, colorlog>>

\* Room for one more message / one more level within the bounds.
Room(n) == Len(heap) < n
Shallow(n) == ctx.indentLevel < n

\* The whole life of a process: trace calls, then exit and the listeners.
Next ==
  \/ Room(MaxQueue) /\ \E a \in LogArgs : Log(a)
  \/ Room(MaxQueue) /\ \E a \in LogArgs : Warn(a)
  \/ Room(MaxQueue) /\ \E a \in LogArgs : Error(a)
  \/ Room(MaxQueue) /\ Shallow(MaxLevel) /\ \E a \in IndentArgs : Indent(a)
  \/ Unindent
  \/ Room(MaxQueue) /\ Shallow(MaxLevel) /\ \E a \in EnterArgs : Enter(a)
  \/ Room(MaxQueue) /\ \E a \in LeaveArgs : Leave(a)
  \/ Exit
  \/ Show

Spec == Init /\ [][Next]_vars

\* Scopes: enter / leave with several names, mixed with the other calls.
ScopeNext ==
  \/ Room(MaxScopeQueue) /\ \E a \in LogArgs : Log(a)
  \/ Shallow(MaxScopeLevel) /\ Indent(NoArgs)
  \/ Unindent
  \/ Room(MaxScopeQueue) /\ Shallow(MaxScopeLevel) /\ \E a \in ScopeEnterArgs : Enter(a)
  \/ Room(MaxScopeQueue) /\ \E a \in ScopeLeaveArgs : Leave(a)

\* The scope stack of trace-console.
ScopeInit == Init /\ pkg = "trace-console"

SpecScope == ScopeInit /\ [][ScopeNext]_vars

\* Scope names: enter with every short string, then leave.
WordsNext ==
  \/ Room(MaxWordsQueue) /\ \E a \in WordArgs : Enter(a)
  \/ Room(MaxWordsQueue) /\ Leave(NoArgs)

\* One package of each source file: the calls of trace-color are, line for
\* line, those of trace-console.
WordsInit == Init /\ pkg \in {"trace-console", "trace-log"}

SpecWords == WordsInit /\ [][WordsNext]_vars

\* exports.group and exports.groupEnd are the function objects of
\* exports.indent and exports.unindent.
group(S, args) == indentOp(S, args)

groupEnd(S) == unindent(S)

Group(args) == Apply(group(Cur, args), "group", "log")

GroupEnd == Apply(groupEnd(Cur), "groupEnd", "log")

LinesEnterArgs == {NoArgs, <<<<"a", " ", "b">>>>}
LinesLeaveArgs == {NoArgs, <<<<"d">>>>}

\* The lines made by each call: every operation of the module, with and
\* without a message.
LinesNext ==
  \/ Room(MaxLinesQueue) /\ \E a \in LogArgs : Log(a)
  \/ Room(MaxLinesQueue) /\ \E a \in LogArgs : Warn(a)
  \/ Room(MaxLinesQueue) /\ \E a \in LogArgs : Error(a)
  \/ Room(MaxLinesQueue) /\ Shallow(MaxLinesLevel) /\ \E a \in IndentArgs : Indent(a)
  \/ Room(MaxLinesQueue) /\ Shallow(MaxLinesLevel) /\ \E a \in IndentArgs : Group(a)
  \/ Unindent
  \/ GroupEnd
  \/ Room(MaxLinesQueue) /\ Shallow(MaxLinesLevel) /\ \E a \in LinesEnterArgs : Enter(a)
  \/ Room(MaxLinesQueue) /\ \E a \in LinesLeaveArgs : Leave(a)

SpecLines == WordsInit /\ [][LinesNext]_vars

\* Messages of one line, of two lines and of empty lines.
DrainArgs == {<<<<"x">>>>, <<<<"x", "\n", "y">>>>, <<<<"\n">>>>}

\* The drain of queues of one-line and multi-line messages, in the three
\* packages.
DrainNext ==
  \/ Room(MaxDrainQueue) /\ \E a \in DrainArgs : Log(a)
  \/ Room(MaxDrainQueue) /\ \E a \in LogArgs : Warn(a)
  \/ \E a \in IndentArgs : Ignore(a)
  \/ Shallow(MaxDrainLevel) /\ Indent(NoArgs)
  \/ Unindent
  \/ Exit
  \/ Show

SpecDrain == Init /\ [][DrainNext]_vars

\* ------------------------------------------------- the test program
\* src/index.js: the loop of main runs TestCount times and factorial throws
\* when asked for the factorial of ThrowAt.
TestCount == 5
ThrowAt == 4

\* The string literals of the program.
StrMain == <<"m", "a", "i", "n">>
StrFactorialValue == <<"f", "a", "c", "t", "o", "r", "i", "a", "l", " ", "v", "a", "l", "u", "e", "=", "%", "d">>
StrCalculating == <<"c", "a", "l", "c", "u", "l", "a", "t", "i", "n", "g", " ", "(", "%", "d", "-", "1", ")", "!">>
StrThrowing == <<"t", "h", "r", "o", "w", "i", "n", "g", ".", ".", ".">>
StrThrowingAgain == <<"t", "h", "r", "o", "w", "i", "n", "g", " ", "a", "g", "a", "i", "n", ".", ".", ".">>
StrReturning == <<"r", "e", "t", "u", "r", "n", "i", "n", "g", " ", "1">>
StrResult == <<"r", "e", "s", "u", "l", "t", "=", "%", "d">>
StrIs == <<"%", "d", "!", " ", "=", " ", "%", "d">>
StrTesting == <<"T", "e", "s", "t", "i", "n", "g", " ">>

\* The characters of the name of the selected module.
TargetName ==
  IF pkg = "trace-console" THEN <<"t", "r", "a", "c", "e", "-", "c", "o", "n", "s", "o", "l", "e">>
  ELSE IF pkg = "trace-color" THEN <<"t", "r", "a", "c", "e", "-", "c", "o", "l", "o", "r">>
  ELSE <<"t", "r", "a", "c", "e", "-", "l", "o", "g">>

\* The program about to run prologue, with a loop of tests iterations in main.
ProgInit(tests) ==
  [pc |-> "prologue", tests |-> tests, i |-> 0, frames |-> <<>>, ret |-> 0,
   thrown |-> FALSE]

\* The activation of factorial that is running: value, first and result
\* (set tells whether result has been assigned).
Top(p) == p.frames[Len(p.frames)]

\* factorial(value, first) is called: control is at its first statement.
invoke(p, value, first) ==
  [p EXCEPT !.frames = Append(@, [value |-> value, first |-> first,
                                  set |-> FALSE, result |-> 0]),
            !.pc = "fact_enter"]

\* The head of the for loop of main: one more call of factorial, or the
\* end of the try block and so the finally block.
loop(p) ==
  IF p.i < p.tests THEN invoke(p, p.i, p.i) ELSE [p EXCEPT !.pc = "main_leave"]

\* Variant of throw: the exception leaves factorial and main without
\* running their finally blocks.
throwNoFinally(p) ==
  [p EXCEPT !.thrown = TRUE, !.frames = <<>>, !.pc = "outer_catch"]

\* throw inside the try block of factorial: control goes to its finally block.
throw(p) == [p EXCEPT !.thrown = TRUE, !.pc = "fact_leave"]

\* The end of the finally block of factorial: the exception goes on to the
\* finally block of the caller, or the result is returned to the caller.
endFinally(p) ==
  LET top == Top(p)
      rest == SubSeq(p.frames, 1, Len(p.frames) - 1)
      p1 == [p EXCEPT !.frames = rest]
  IN IF p.thrown
       THEN [p1 EXCEPT !.pc = IF rest = <<>> THEN "main_leave" ELSE "fact_leave"]
     ELSE IF rest = <<>>
       THEN [p1 EXCEPT !.ret = top.result, !.pc = "main_log"]
     ELSE [p1 EXCEPT !.frames[Len(rest)].result = top.result * rest[Len(rest)].value,
                     !.frames[Len(rest)].set = TRUE,
                     !.pc = "fact_leave"]

At(label) == prog.pc = label

\* A trace call made by the program.
ProgStep(S, op, fn) == Step(S, op, fn) /\ UNCHANGED <<twin, colorlog>>

\* prologue(): two lines straight to the console.
Prologue ==
  /\ At("prologue")
  /\ out' = out \o <<Call("log", repeat("-", HeaderWidth)),
                     Call("log", StrTesting \o TargetName)>>
  /\ prog' = [prog EXCEPT !.pc = "main_enter"]
  /\ last' = [op |-> "prologue", level |-> ctx.indentLevel]
  /\ UNCHANGED <<pkg, env, ctx, heap, pc, fired, sev, twin, colorlog>>

MainEnter ==
  /\ At("main_enter")
  /\ ProgStep(enter(Cur, <<StrMain>>), "enter", "log")
  /\ prog' = loop(prog)

FactEnter ==
  /\ At("fact_enter")
  /\ ProgStep(enter(Cur, <<StrFactorialValue, Num(Top(prog).value)>>), "enter", "log")
  /\ prog' = [prog EXCEPT !.pc = IF Top(prog).value > 1 THEN "fact_calc"
                                 ELSE IF Top(prog).first = ThrowAt THEN "fact_warn"
                                 ELSE "fact_return"]

FactCalc ==
  /\ At("fact_calc")
  /\ ProgStep(log(Cur, <<StrCalculating, Num(Top(prog).value)>>), "log", "log")
  /\ prog' = invoke(prog, Top(prog).value - 1, Top(prog).first)

FactWarn ==
  /\ At("fact_warn")
  /\ ProgStep(warn(Cur, <<StrThrowing>>), "warn", "warn")
  /\ prog' = [prog EXCEPT !.pc = "fact_catch"]

\* The inner try block throws and its catch block reports the exception.
FactCatch ==
  /\ At("fact_catch")
  /\ ProgStep(error(Cur, <<ErrorObject(StrThrowing)>>), "error", "error")
  /\ prog' = [prog EXCEPT !.pc = "fact_warn_again"]

FactWarnAgain ==
  /\ At("fact_warn_again")
  /\ ProgStep(warn(Cur, <<StrThrowingAgain>>), "warn", "warn")
  /\ prog' = throw(prog)

FactReturn ==
  /\ At("fact_return")
  /\ ProgStep(log(Cur, <<StrReturning>>), "log", "log")
  /\ prog' = [prog EXCEPT !.frames[Len(prog.frames)].result = 1,
                          !.frames[Len(prog.frames)].set = TRUE,
                          !.pc = "fact_leave"]

\* The finally block of factorial.
FactLeave ==
  /\ At("fact_leave")
  /\ ProgStep(leave(Cur, <<StrResult, IF Top(prog).set THEN Num(Top(prog).result)
                                                   ELSE Undefined>>), "leave", "log")
  /\ prog' = endFinally(prog)

MainLog ==
  /\ At("main_log")
  /\ ProgStep(log(Cur, <<StrIs, Num(prog.i), Num(prog.ret)>>), "log", "log")
  /\ prog' = loop([prog EXCEPT !.i = prog.i + 1])

\* The finally block of main.
MainLeave ==
  /\ At("main_leave")
  /\ ProgStep(leave(Cur, NoArgs), "leave", "log")
  /\ prog' = [prog EXCEPT !.pc = IF prog.thrown THEN "outer_catch" ELSE "done"]

\* The catch block around main().
OuterCatch ==
  /\ At("outer_catch")
  /\ ProgStep(error(Cur, <<ErrorObject(StrThrowing)>>), "error", "error")
  /\ prog' = [prog EXCEPT !.pc = "done"]

TestNext ==
  \/ Prologue
  \/ MainEnter
  \/ FactEnter
  \/ FactCalc
  \/ FactWarn
  \/ FactCatch
  \/ FactWarnAgain
  \/ FactReturn
  \/ FactLeave
  \/ MainLog
  \/ MainLeave
  \/ OuterCatch
  \/ At("done") /\ Exit
  \/ Show

\* The program as it is has TestCount iterations; the shorter loops are the
\* runs in which main ends without an exception.
TestInit == Loaded /\ prog \in {ProgInit(n) : n \in 1..TestCount} /\ Alone

SpecTest == TestInit /\ [][TestNext]_vars

\* ------------------------------------------------------- side by side
\* The environments of SpecSide: no color support; color on both streams;
\* color with standard output redirected; color with standard error
\* redirected.
SideEnvs == RunEnvs \cup {[hascolor |-> TRUE, outTTY |-> TRUE, errTTY |-> FALSE]}

\* The packages that run next to trace-color.
TwinPackages == Packages \ {"trace-color"}

SideInit ==
  /\ pkg = "trace-color"
  /\ env \in SideEnvs
  /\ ctx = CtxInit
  /\ heap = <<>>
  /\ pc = "run"
  /\ fired = 0
  /\ out = <<>>
  /\ sev = <<>>
  /\ last = [op |-> "load", level |-> 0]
  /\ prog = NoProgram
  /\ twin = [p \in TwinPackages |-> [ctx |-> CtxInit, heap |-> <<>>, pkg |-> p]]
  /\ colorlog \in {[NoColorLog EXCEPT !.group = g] : g \in BOOLEAN}

\* One call of the test program's log, warn, error, enter or leave, or of
\* group and groupEnd, reaches every package: S is the state it leaves
\* trace-color in, T the states of the other deferred packages and C the
\* state of color-log.
Side(S, T, C, op, fn) ==
  /\ Step(S, op, fn)
  /\ twin' = T
  /\ colorlog' = C
  /\ UNCHANGED prog

SideLog(a) ==
  Side(log(Cur, a), [p \in DOMAIN twin |-> log(twin[p], a)],
       colorPrint(colorlog, env, "log", a), "log", "log")

SideWarn(a) ==
  Side(warn(Cur, a), [p \in DOMAIN twin |-> warn(twin[p], a)],
       colorPrint(colorlog, env, "warn", a), "warn", "warn")

SideError(a) ==
  Side(error(Cur, a), [p \in DOMAIN twin |-> error(twin[p], a)],
       colorPrint(colorlog, env, "error", a), "error", "error")

SideGroup(a) ==
  Side(group(Cur, a), [p \in DOMAIN twin |-> group(twin[p], a)],
       colorGroup(colorlog, env, a), "group", "log")

SideGroupEnd ==
  Side(groupEnd(Cur), [p \in DOMAIN twin |-> groupEnd(twin[p])],
       colorGroupEnd(colorlog), "groupEnd", "log")

SideEnter(a) ==
  Side(enter(Cur, a), [p \in DOMAIN twin |-> enter(twin[p], a)],
       wrapEnter(colorlog, env, a), "enter", "log")

SideLeave(a) ==
  Side(leave(Cur, a), [p \in DOMAIN twin |-> leave(twin[p], a)],
       wrapLeave(colorlog, env, a), "leave", "log")

SideNext ==
  \/ Room(MaxSideQueue) /\ \E a \in LogArgs : SideLog(a)
  \/ Room(MaxSideQueue) /\ \E a \in LogArgs : SideWarn(a)
  \/ Room(MaxSideQueue) /\ \E a \in LogArgs : SideError(a)
  \/ Room(MaxSideQueue) /\ Shallow(MaxSideLevel) /\ \E a \in IndentArgs : SideGroup(a)
  \/ SideGroupEnd
  \/ Room(MaxSideQueue) /\ Shallow(MaxSideLevel) /\ \E a \in EnterArgs : SideEnter(a)
  \/ Room(MaxSideQueue) /\ \E a \in LeaveArgs : SideLeave(a)
  \/ Exit
  \/ Show

SpecSide == SideInit /\ [][SideNext]_vars

\* ------------------------------------------------------- derived notions
\* The Message objects reachable from curr through next, in that order.
RECURSIVE chain(_, _, _)
chain(h, curr, fuel) ==
  IF curr = NULL \/ fuel = 0 THEN <<>>
  ELSE <<curr>> \o chain(h, h[curr].next, fuel - 1)

\* The queue: the messages from ctx.head on.
Queue == chain(heap, ctx.head, Len(heap) + 1)
QueueNext == chain(heap', ctx'.head, Len(heap') + 1)

\* The console calls made by the step.
Printed == SubSeq(out', Len(out) + 1, Len(out'))

\* A printed text without its escape sequences.
Unstyled(text) == SelectSeq(text, LAMBDA c : c \notin StyleCodes)

\* Number of spaces a text starts with.
RECURSIVE LeadingSpaces(_)
LeadingSpaces(text) ==
  IF text # <<>> /\ Head(text) = " " THEN 1 + LeadingSpaces(Tail(text)) ELSE 0

\* The Message object made by the step, when it made one.
Enqueues == Len(heap') = Len(heap) + 1
NewMessage == heap'[Len(heap')]

IsHeader(call) == Unstyled(call.text) = repeat("-", HeaderWidth)

\* ------------------------------------------------------------------ C1
\* C1: a drain prints, after the header, exactly one line per enqueued
\* message, in the order in which the messages were enqueued (the order of
\* allocation): no message is skipped, duplicated or reordered.
C1_DrainFifo ==
  [][last'.op = "show" =>
       IF Len(heap) = 0 THEN Printed = <<>>
       ELSE /\ Len(Printed) = Len(heap) + 1
            /\ \A i \in 1..Len(heap) :
                 Unstyled(Printed[i + 1].text) =
                   repeat(" ", heap[i].width) \o heap[i].text]_vars

C1_Witness ==
  /\ last.op = "show" /\ fired = 1
  /\ Len(heap) >= 3 /\ Len(out) = Len(heap) + 1
  /\ sev[1] = "warn" /\ sev[2] = "log" /\ sev[3] = "error"
  /\ heap[1].width # heap[2].width

\* ------------------------------------------------------------------ C2
\* C2: log, warn and error stamp the new message with the indentation width
\* of the moment of the call; no later operation changes the text, width or
\* type of an enqueued message; the drain prints each message with exactly
\* its stamped width, whatever the indentation is at drain time.
C2_StampedImmutable ==
  [][/\ \A i \in 1..Len(heap) :
          /\ i <= Len(heap')
          /\ heap'[i].text = heap[i].text
          /\ heap'[i].width = heap[i].width
          /\ heap'[i].type = heap[i].type
     /\ last'.op \in {"log", "warn", "error"} =>
          Enqueues /\ NewMessage.width = ctx.indentWidth
     /\ (last'.op = "show" /\ Len(heap) > 0) =>
          \A i \in 1..Len(heap) :
            LeadingSpaces(Unstyled(Printed[i + 1].text)) =
              heap[i].width + LeadingSpaces(heap[i].text)]_vars

C2_Witness ==
  /\ last.op = "show" /\ Len(heap) >= 2
  /\ sev[1] = "warn" /\ heap[1].width = IndentSizeInit
  /\ ctx.indentWidth = 0
  /\ LeadingSpaces(Unstyled(out[2].text)) = IndentSizeInit

\* ------------------------------------------------------------------ C3
\* C3: once a drain has printed the queue, a second drain with no enqueue in
\* between prints nothing: no second header, no message again.
C3_SecondDrainNoOp ==
  [][(last'.op = "show" /\ fired >= 1) => out' = out]_vars

\* ------------------------------------------------------------------ C4
\* C4: on a normal exit the drain runs exactly once: the header is never
\* printed twice, and when the process has called its listeners every
\* message was printed once.
C4_DrainExactlyOnce ==
  /\ Cardinality({i \in 1..Len(out) : IsHeader(out[i])}) <= 1
  /\ (pc = "exit" /\ fired = ExitListeners(pkg)) =>
       Len(out) = IF Len(heap) = 0 THEN 0 ELSE Len(heap) + 1

\* ------------------------------------------------------------------ C5
\* C5 as claimed: the scope-name stack is never larger than the nesting level.
C5_NamesWithinLevel == Len(ctx.names) <= ctx.indentLevel

\* C5 as amended: the relation holds initially and every call other than
\* unindent / groupEnd preserves it.
C5_NamesWithinLevelUnlessUnindent ==
  /\ Len(ctx.names) <= ctx.indentLevel
  /\ [][(Len(ctx.names) <= ctx.indentLevel /\ last'.op # "unindent") =>
          Len(ctx'.names) <= ctx'.indentLevel]_vars

C5_Witness ==
  /\ last.op = "leave" /\ last.level = 2
  /\ Len(ctx.names) = 1 /\ ctx.indentLevel = 1

\* ------------------------------------------------------------------ C6
\* C6 as claimed: in every package the drain sends a message enqueued by log
\* to standard output and one enqueued by warn or error to standard error.
C6_SeverityChannel ==
  [][(last'.op = "show" /\ Len(heap) > 0) =>
       \A i \in 1..Len(heap) :
         Channel(Printed[i + 1].fn) =
           IF sev[i] = "log" THEN "stdout" ELSE "stderr"]_vars

\* C6 as amended: trace-console and trace-color print each message with the
\* console function of its severity (log to standard output, warn and error
\* to standard error); trace-log prints every message with console.log.
C6_SeverityChannelButTraceLog ==
  [][(last'.op = "show" /\ Len(heap) > 0) =>
       \A i \in 1..Len(heap) :
         /\ Printed[i + 1].fn = IF pkg = "trace-log" THEN "log" ELSE sev[i]
         /\ Channel(Printed[i + 1].fn) =
              IF pkg = "trace-log" \/ sev[i] = "log" THEN "stdout" ELSE "stderr"]_vars

C6_Witness ==
  /\ last.op = "show" /\ pkg = "trace-color" /\ Len(heap) >= 3
  /\ env.hascolor /\ env.errTTY
  /\ sev[1] = "log" /\ sev[2] = "warn" /\ sev[3] = "error"
  /\ out[2].fn = "log" /\ out[3].fn = "warn" /\ out[4].fn = "error"

\* ------------------------------------------------------------------ C7
\* C7 as claimed: enter() without arguments leaves the queue length
\* unchanged, pushes a scope name and raises the level by one.
C7_EnterNoArgsEnqueuesNothing ==
  [][Enter(NoArgs) =>
       /\ Len(QueueNext) = Len(Queue)
       /\ Len(ctx'.names) = Len(ctx.names) + 1
       /\ ctx'.indentLevel = ctx.indentLevel + 1]_vars

\* C7 as amended: enter() without arguments enqueues one message, the bare
\* open marker, at the width before the call, pushes the empty name and
\* raises the level by one.
C7_EnterNoArgsBareMarker ==
  [][Enter(NoArgs) =>
       /\ Len(QueueNext) = Len(Queue) + 1
       /\ NewMessage.text = <<">", " ">>
       /\ NewMessage.width = ctx.indentWidth
       /\ ctx'.names = Append(ctx.names, <<>>)
       /\ ctx'.indentLevel = ctx.indentLevel + 1]_vars

C7_Witness ==
  /\ last.op = "enter" /\ Len(heap) >= 1
  /\ heap[Len(heap)].text = <<">", " ">>
  /\ ctx.names # <<>> /\ ctx.names[Len(ctx.names)] = <<>>
  /\ ctx.indentLevel = last.level + 1

\* ------------------------------------------------------------------ C8
Whitespace == {" ", "\n", "\t"}

\* The longest prefix of t whose characters are all in (keep = TRUE) or all
\* outside (keep = FALSE) the set cs.
RECURSIVE Run(_, _, _)
Run(t, cs, keep) ==
  IF t = <<>> \/ ((Head(t) \in cs) # keep) THEN <<>>
  ELSE <<Head(t)>> \o Run(Tail(t), cs, keep)

\* t without the prefix Run(t, cs, keep).
Rest(t, cs, keep) == SubSeq(t, Len(Run(t, cs, keep)) + 1, Len(t))

\* The first whitespace-delimited token of message, the message without one.
FirstToken(message) ==
  LET token == Run(Rest(message, Whitespace, TRUE), Whitespace, FALSE)
  IN IF token = <<>> THEN message ELSE token

\* The first run of letters, digits and underscores of message, the message
\* without one.
FirstWord(message) ==
  LET word == Run(Rest(message, WordChars, FALSE), WordChars, TRUE)
  IN IF word = <<>> THEN message ELSE word

\* The message of the enter line m: its text after the open marker.
EnterMessage(m) == SubSeq(m.text, IndentSizeInit + 1, Len(m.text))

\* C8 as claimed: the name pushed by enter is the first whitespace-delimited
\* token of the message, the whole message when there is none.
C8_ScopeNameFirstToken ==
  [][last'.op = "enter" =>
       ctx'.names = Append(ctx.names, FirstToken(EnterMessage(NewMessage)))]_vars

\* C8 as amended: the name pushed by enter is the first maximal run of word
\* characters (letters, digits, underscore) of the message, the whole message
\* when it has no word character.
C8_ScopeNameFirstWord ==
  [][last'.op = "enter" =>
       ctx'.names = Append(ctx.names, FirstWord(EnterMessage(NewMessage)))]_vars

C8_Witness ==
  /\ last.op = "enter" /\ Len(heap) = 1
  /\ heap[1].text = <<">", " ", "-", "a", "-">>
  /\ ctx.names = <<<<"a">>>>

\* ------------------------------------------------------------------ C9
\* C9: the nesting level is never negative; unindent and leave at level 0
\* leave the level (and the width) at 0; a message enqueued from level 0 has
\* width 0.
C9_LevelFloor ==
  /\ [](ctx.indentLevel >= 0)
  /\ [][/\ (last'.op \in {"unindent", "leave"} /\ ctx.indentLevel = 0) =>
             (ctx'.indentLevel = 0 /\ ctx'.indentWidth = 0)
        /\ (Enqueues /\ ctx.indentLevel = 0) => NewMessage.width = 0]_vars

C9_Witness ==
  /\ last = [op |-> "unindent", level |-> 0]
  /\ ctx.indentLevel = 0 /\ ctx.indentWidth = 0
  /\ Len(heap) >= 1 /\ heap[Len(heap)].width = 0

\* ----------------------------------------------------------------- C10
IsEnterLine(m) == m.text # <<>> /\ Head(m.text) = ">"
IsLeaveLine(m) == m.text # <<>> /\ Head(m.text) = "<"

\* The content of the leave line m: its text after the close marker.
LeaveContent(m) == SubSeq(m.text, IndentSizeInit + 1, Len(m.text))

\* t starts with p.
StartsWith(t, p) == Len(t) >= Len(p) /\ SubSeq(t, 1, Len(p)) = p

\* Reads the lines h[i..] with the enter lines still open in opened (the
\* innermost last): every leave line that closes an enter line starts with
\* the name of that enter line.
RECURSIVE Nested(_, _, _)
Nested(h, i, opened) ==
  IF i > Len(h) THEN TRUE
  ELSE IF IsEnterLine(h[i]) THEN Nested(h, i + 1, Append(opened, i))
  ELSE IF IsLeaveLine(h[i]) /\ opened # <<>>
    THEN /\ StartsWith(LeaveContent(h[i]),
                       FirstWord(EnterMessage(h[opened[Len(opened)]])))
         /\ Nested(h, i + 1, SubSeq(opened, 1, Len(opened) - 1))
  ELSE Nested(h, i + 1, opened)

\* C10: scope names are popped in LIFO order: each leave line carries the
\* name pushed by the enter it closes, whatever calls and complete scopes lie
\* in between.
C10_ScopeNamesLifo == Nested(heap, 1, <<>>)

C10_Witness ==
  /\ Len(heap) = 4
  /\ heap[1].text = <<">", " ", "a">> /\ heap[2].text = <<">", " ", "b">>
  /\ heap[3].text = <<"<", " ", "b">> /\ heap[4].text = <<"<", " ", "a">>
  /\ ctx.names = <<>>

\* ----------------------------------------------------------------- C11
\* The content of a leave line as the four cases give it, from the name
\* taken off the stack (Undefined when the stack was empty) and the message.
FourCases(name, message) ==
  LET hasName == name # Undefined /\ Len(name) > 0
      hasMessage == Len(message) > 0
  IN CASE hasName /\ hasMessage -> name \o <<" ">> \o message
       [] hasName /\ ~hasMessage -> name
       [] ~hasName /\ hasMessage -> message
       [] OTHER -> <<>>

\* The name on top of the scope stack, Undefined when the stack is empty.
TopName == IF ctx.names = <<>> THEN Undefined ELSE ctx.names[Len(ctx.names)]

\* C11: the content of the line enqueued by leave is made of the name taken
\* off the scope stack and of the message of the call: both non-empty give
\* name, one space, message; only the name gives the name; only the message
\* gives the message; neither gives the empty string.
C11_LeaveContentFourCases ==
  [][\A a \in LinesLeaveArgs :
       Leave(a) => /\ Enqueues
                   /\ IsLeaveLine(NewMessage)
                   /\ LeaveContent(NewMessage) = FourCases(TopName, format(a))]_vars

C11_Witness ==
  /\ Len(heap) = 2 /\ last.op = "leave"
  /\ heap[1].text = <<">", " ", "a", " ", "b">>
  /\ heap[2].text = <<"<", " ", "a", " ", "d">>

\* ----------------------------------------------------------------- C12
\* The type of an informational message: LOG, and no type at all in trace-log.
Informational == IF pkg = "trace-log" THEN NOTYPE ELSE LOG

\* C12: enter enqueues one informational line stamped with the width in
\* force before the call, whose text is '>', unit - 1 spaces and the
\* message; after the call the nesting level is one more than before.
C12_EnterLine ==
  [][\A a \in LinesEnterArgs :
       Enter(a) => /\ Enqueues
                   /\ NewMessage.width = ctx.indentWidth
                   /\ NewMessage.text =
                        <<">">> \o repeat(" ", IndentSizeInit - 1) \o format(a)
                   /\ NewMessage.type = Informational
                   /\ sev'[Len(sev')] = "log"
                   /\ ctx'.indentLevel = ctx.indentLevel + 1]_vars

C12_Witness ==
  /\ last.op = "enter" /\ last.level = 1 /\ ctx.indentLevel = 2
  /\ Len(heap) = 2
  /\ heap[2].text = <<">", " ", "a", " ", "b">> /\ heap[2].width = IndentSizeInit

\* ----------------------------------------------------------------- C13
\* The larger of two integers.
Max(a, b) == IF a >= b THEN a ELSE b

\* C13: leave enqueues one line stamped with the width in force after its
\* own decrease, Max(level - 1, 0) times the unit for the level before the
\* call, whose text is '<', unit - 1 spaces and the joined name and message.
C13_LeaveLine ==
  [][\A a \in LinesLeaveArgs :
       Leave(a) => /\ Enqueues
                   /\ NewMessage.width = Max(ctx.indentLevel - 1, 0) * IndentSizeInit
                   /\ NewMessage.width = ctx'.indentWidth
                   /\ NewMessage.text =
                        <<"<">> \o repeat(" ", IndentSizeInit - 1)
                                \o FourCases(TopName, format(a))]_vars

C13_Witness ==
  /\ last.op = "leave" /\ last.level = 2 /\ ctx.indentLevel = 1
  /\ Len(heap) = 2
  /\ heap[2].text = <<"<", " ", "a", " ", "d">> /\ heap[2].width = IndentSizeInit

\* ----------------------------------------------------------------- C14
\* C14: a leave on an empty scope stack enqueues exactly one line, whose
\* content is the message of the call ('' without arguments); the stack
\* stays empty and a level of 0 stays 0.
C14_UnmatchedLeave ==
  [][\A a \in LinesLeaveArgs :
       (Leave(a) /\ ctx.names = <<>>)
         => /\ Enqueues
            /\ IsLeaveLine(NewMessage)
            /\ LeaveContent(NewMessage) = format(a)
            /\ ctx'.names = <<>>
            /\ (ctx.indentLevel = 0 => ctx'.indentLevel = 0)]_vars

C14_Witness ==
  /\ last.op = "leave" /\ last.level = 0 /\ ctx.indentLevel = 0
  /\ Len(heap) = 2 /\ ctx.names = <<>>
  /\ heap[1].text = <<"<", " ", "d">> /\ heap[2].text = <<"<", " ">>

\* ----------------------------------------------------------------- C15
\* The lines of a text: the pieces between its line breaks.
RECURSIVE Lines(_)
Lines(t) ==
  LET breaks == {i \in 1..Len(t) : t[i] = "\n"}
  IN IF breaks = {} THEN <<t>>
     ELSE LET b == CHOOSE i \in breaks : \A j \in breaks : i <= j
          IN <<SubSeq(t, 1, b - 1)>> \o Lines(SubSeq(t, b + 1, Len(t)))

\* C15: the drain prints a message line by line: the printed text has the
\* lines of the message's text, each one after exactly as many spaces as
\* the message's stamped width; a message of width 0 is printed unchanged.
C15_EveryLineIndented ==
  [][last'.op = "show" =>
       \A i \in 1..Len(heap) :
         LET printed == Unstyled(Printed[i + 1].text)
             lines == Lines(heap[i].text)
         IN /\ Len(Lines(printed)) = Len(lines)
            /\ \A k \in 1..Len(lines) :
                 Lines(printed)[k] = repeat(" ", heap[i].width) \o lines[k]
            /\ (heap[i].width = 0 => printed = heap[i].text)]_vars

C15_Witness ==
  /\ last.op = "show" /\ Len(heap) = 2 /\ Len(out) = 3
  /\ heap[1].text = <<"x", "\n", "y">> /\ heap[1].width = 2 * IndentSizeInit
  /\ Unstyled(out[2].text) =
       <<" ", " ", " ", " ", "x", "\n", " ", " ", " ", " ", "y">>
  /\ heap[2].text = <<"x", "\n", "y">> /\ heap[2].width = 0

\* ----------------------------------------------------------------- C16
\* The header lines among the console calls calls.
Headers(calls) == {i \in 1..Len(calls) : IsHeader(calls[i])}

\* C16: a drain of an empty queue prints nothing; a drain of a queue that
\* holds a message prints exactly one line of 80 dashes, with console.log,
\* before the first message and nowhere else.
C16_OneHeader ==
  [][last'.op = "show" =>
       IF Len(Queue) = 0 THEN Printed = <<>>
       ELSE /\ Headers(Printed) = {1}
            /\ Printed[1].fn = "log"
            /\ Len(Unstyled(Printed[1].text)) = 80
            /\ \A k \in 1..80 : Unstyled(Printed[1].text)[k] = "-"]_vars

C16_Witness ==
  /\ last.op = "show" /\ fired = 1 /\ Len(heap) = 2
  /\ Len(out) = 3 /\ IsHeader(out[1]) /\ ~IsHeader(out[2]) /\ ~IsHeader(out[3])
  /\ env.hascolor

\* ----------------------------------------------------------------- C17
\* C17: in every state the indentation width is the nesting level times
\* the unit, and the unit is 2; every message is stamped with the level in
\* force when it is enqueued (for leave, the level after its decrease)
\* times the unit, a non-negative multiple of the unit.
C17_WidthIsLevelTimesUnit ==
  /\ [](/\ ctx.indentSize = 2
        /\ ctx.indentWidth = ctx.indentLevel * ctx.indentSize)
  /\ [][Enqueues =>
          LET level == IF last'.op = "leave" THEN ctx'.indentLevel
                                             ELSE ctx.indentLevel
          IN /\ NewMessage.width = level * 2
             /\ NewMessage.width >= 0
             /\ NewMessage.width % 2 = 0]_vars

C17_Witness ==
  /\ last.op = "unindent" /\ last.level = 2
  /\ ctx.indentLevel = 1 /\ ctx.indentWidth = 2
  /\ Len(heap) = 2 /\ heap[1].width = 2 /\ heap[2].width = 4

\* ----------------------------------------------------------------- C19
\* C19: indent and group with a message enqueue it as an informational
\* message stamped with the width in force before the call, without a
\* message they enqueue nothing; both end one level higher.  group is
\* indent and groupEnd is unindent: the same effect on the same state.  None
\* of the four changes the scope stack; unindent and groupEnd enqueue
\* nothing.
C19_IndentGroup ==
  /\ [](/\ \A a \in IndentArgs : group(Cur, a) = indentOp(Cur, a)
        /\ groupEnd(Cur) = unindent(Cur))
  /\ [][\A a \in IndentArgs :
          (Indent(a) \/ Group(a))
            => /\ IF Len(a) > 0
                    THEN /\ Enqueues
                         /\ NewMessage.text = format(a)
                         /\ NewMessage.width = ctx.indentWidth
                         /\ NewMessage.type = Informational
                         /\ sev'[Len(sev')] = "log"
                    ELSE heap' = heap
               /\ ctx'.indentLevel = ctx.indentLevel + 1
               /\ ctx'.names = ctx.names]_vars
  /\ [][(Unindent \/ GroupEnd) => /\ heap' = heap
                                  /\ ctx'.names = ctx.names
                                  /\ ctx'.indentLevel = Max(ctx.indentLevel - 1, 0)]_vars

C19_Witness ==
  /\ last.op = "group" /\ last.level = 1 /\ ctx.indentLevel = 2
  /\ Len(heap) = 2 /\ heap[2].text = <<"x">> /\ heap[2].width = IndentSizeInit
  /\ IsEnterLine(heap[1]) /\ Len(ctx.names) = 1

\* ----------------------------------------------------------------- C20
\* C20: log, warn and error can always be called; each call links exactly
\* one new message behind the last one of the queue and changes nothing
\* else: the messages already there, the nesting level, the width and the
\* scope stack are as before.
C20_LogAppendsOne ==
  /\ [](pc = "run" => \A a \in LogArgs :
                         ENABLED Log(a) /\ ENABLED Warn(a) /\ ENABLED Error(a))
  /\ [][\A a \in LogArgs :
          (Log(a) \/ Warn(a) \/ Error(a))
            => /\ Enqueues
               /\ QueueNext = Append(Queue, Len(heap'))
               /\ NewMessage.text = format(a)
               /\ \A i \in 1..Len(heap) :
                    /\ heap'[i].text = heap[i].text
                    /\ heap'[i].width = heap[i].width
                    /\ heap'[i].type = heap[i].type
               /\ ctx'.indentLevel = ctx.indentLevel
               /\ ctx'.indentWidth = ctx.indentWidth
               /\ ctx'.names = ctx.names]_vars

C20_Witness ==
  /\ last.op = "error" /\ last.level = 1 /\ ctx.indentLevel = 1
  /\ Len(heap) = 2 /\ Queue = <<1, 2>>
  /\ sev = <<"log", "error">> /\ heap[2].text = <<"x">>
  /\ Len(ctx.names) = 1

\* ----------------------------------------------------------------- C18
\* Number of enter lines and of leave lines among the messages h.
Enters(h) == Cardinality({i \in 1..Len(h) : IsEnterLine(h[i])})
Leaves(h) == Cardinality({i \in 1..Len(h) : IsLeaveLine(h[i])})

\* Number of scopes the program is in: main and the running activations of
\* factorial, each one from its enter to its leave.
OpenScopes ==
  IF prog.pc \in {"prologue", "main_enter", "outer_catch", "done"} THEN 0
  ELSE 1 + Len(prog.frames) - (IF prog.pc = "fact_enter" THEN 1 ELSE 0)

\* C18: in the test program, where every enter has its leave in a finally
\* block, the scopes entered and not yet left are exactly those the
\* program is in; once main is over, with or without an exception, there
\* are as many leave lines as enter lines, the nesting level is 0 and the
\* scope stack is empty; the error enqueued by the catch block around main
\* has width 0.
C18_TryFinallyBalanced ==
  /\ Enters(heap) - Leaves(heap) = OpenScopes
  /\ ctx.indentLevel = OpenScopes
  /\ Len(ctx.names) = OpenScopes
  /\ prog.pc \in {"outer_catch", "done"}
       => /\ Enters(heap) = Leaves(heap)
          /\ ctx.indentLevel = 0
          /\ ctx.names = <<>>
  /\ (prog.pc = "done" /\ prog.thrown)
       => /\ sev[Len(sev)] = "error"
          /\ heap[Len(heap)].width = 0

C18_Witness ==
  /\ prog.pc = "done" /\ prog.thrown /\ prog.tests = TestCount
  /\ last.op = "error" /\ heap[Len(heap)].width = 0
  /\ Enters(heap) = 12 /\ Leaves(heap) = 12
  /\ ctx.indentLevel = 0 /\ ctx.names = <<>>

\* ----------------------------------------------------------------- C21
\* C21: ignore, with or without arguments, changes nothing: the queue, the
\* nesting level, the width and the scope stack are as before, nothing is
\* printed, and a drain prints what it would have printed without the call.
C21_IgnoreNoOp ==
  [][\A a \in IndentArgs :
       Ignore(a) => /\ ctx' = ctx
                    /\ heap' = heap
                    /\ QueueNext = Queue
                    /\ out' = out
                    /\ show([ctx |-> ctx', heap |-> heap', pkg |-> pkg], env)
                         = show(Cur, env)]_vars

C21_Witness ==
  /\ last.op = "ignore" /\ last.level = 1
  /\ Len(heap) = 1 /\ ctx.indentLevel = 1 /\ out = <<>>

\* ----------------------------------------------------------------- C22
\* A string of exactly n spaces.
IsSpaces(t, n) == Len(t) = n /\ \A k \in 1..n : t[k] = " "

\* C22: in every iteration of the loop of a drain the indentation string
\* in use is exactly the width of the message being printed in spaces, it
\* is the string the printed line starts with, and it was rebuilt in the
\* iteration exactly when the width differs from the width of the message
\* before (from 0 for the first message).
C22_IndentationCache ==
  [][(last'.op = "show" /\ ctx.head # NULL) =>
       LET its == iterations(heap, ctx.head, 0, <<>>)
           width(k) == heap[its[k].curr].width
       IN /\ Len(its) = Len(heap)
          /\ \A k \in 1..Len(its) :
               /\ IsSpaces(its[k].indentation, width(k))
               /\ its[k].rebuilt <=> (width(k) # IF k = 1 THEN 0 ELSE width(k - 1))
               /\ Unstyled(Printed[k + 1].text)
                    = its[k].indentation \o heap[its[k].curr].text]_vars

C22_Witness ==
  /\ last.op = "show" /\ Len(heap) = 3 /\ Len(out) = 4
  /\ heap[1].width = 2 /\ heap[2].width = 0 /\ heap[3].width = 2
  /\ LeadingSpaces(Unstyled(out[4].text)) = 2

\* ----------------------------------------------------------------- C23
\* Enter lines minus leave lines among h[i..j].
Balance(h, i, j) ==
  Cardinality({k \in i..j : IsEnterLine(h[k])})
    - Cardinality({k \in i..j : IsLeaveLine(h[k])})

\* The leave line that closes the enter line h[i]: the first line after it
\* at which the lines from i on are balanced; 0 while the scope is open.
Closing(h, i) ==
  LET js == {j \in (i + 1)..Len(h) : Balance(h, i, j) = 0}
  IN IF js = {} THEN 0 ELSE CHOOSE j \in js : \A k \in js : j <= k

\* C23: in the test program, whose enter and leave calls are balanced, the
\* leave line of a scope has the width of the scope's enter line, and
\* every line enqueued inside the scope is at least one unit wider than
\* the enter line.
C23_BalancedWidths ==
  \A i \in 1..Len(heap) :
    IsEnterLine(heap[i]) =>
      LET j == Closing(heap, i)
          end == IF j = 0 THEN Len(heap) ELSE j - 1
      IN /\ j # 0 => /\ IsLeaveLine(heap[j])
                     /\ heap[j].width = heap[i].width
         /\ \A k \in (i + 1)..end :
              heap[k].width >= heap[i].width + IndentSizeInit

\* factorial(3): three scopes inside one another and inside main, all closed.
C23_Witness ==
  /\ Len(heap) = 25 /\ prog.pc = "main_log" /\ prog.i = 3
  /\ IsEnterLine(heap[17]) /\ heap[17].width = 2
  /\ Closing(heap, 17) = 25 /\ heap[25].width = 2
  /\ IsEnterLine(heap[21]) /\ heap[21].width = 6 /\ Closing(heap, 21) = 23
  /\ heap[22].width = 8

\* ----------------------------------------------------------------- C24
\* The console call has an escape sequence somewhere in its text.
HasCodes(c) == \E k \in 1..Len(c.text) : c.text[k] \in StyleCodes

\* The text of the console call is one start code, a text without escape
\* sequences and the reset code.
Wrapped(c) ==
  /\ Len(c.text) >= 2
  /\ c.text[1] \in {White, Yellow, Red}
  /\ c.text[Len(c.text)] = Reset
  /\ \A k \in 2..(Len(c.text) - 1) : c.text[k] \notin StyleCodes

\* The probe reports color support and the stream the console function fn
\* writes to is a TTY.
ColorFor(fn) ==
  env.hascolor /\ (IF Channel(fn) = "stdout" THEN env.outTTY ELSE env.errTTY)

\* C24: a line printed by trace-color or by color-log has escape sequences
\* only if the probe reports color support and the stream of its severity
\* is a TTY, and then it is wrapped in a start code and the reset code;
\* otherwise it has no escape sequence.  A line that trace-color wraps is
\* the start code, the indentation, the text of the message and the reset
\* code, in this order.
C24_ColorOnlyOnCapableTTY ==
  /\ \A k \in 1..Len(out) :
       /\ HasCodes(out[k]) => (ColorFor(out[k].fn) /\ Wrapped(out[k]))
       /\ ~ColorFor(out[k].fn) => ~HasCodes(out[k])
  /\ \A k \in 1..Len(colorlog.out) :
       /\ HasCodes(colorlog.out[k])
            => (ColorFor(colorlog.out[k].fn) /\ Wrapped(colorlog.out[k]))
       /\ ~ColorFor(colorlog.out[k].fn) => ~HasCodes(colorlog.out[k])
  /\ (last.op = "show" /\ fired = 1) =>
       \A i \in 1..Len(heap) :
         HasCodes(out[i + 1]) =>
           SubSeq(out[i + 1].text, 2, Len(out[i + 1].text) - 1)
             = repeat(" ", heap[i].width) \o heap[i].text

C24_Witness ==
  /\ last.op = "show" /\ fired = 1 /\ Len(heap) = 2
  /\ env.hascolor /\ ~env.outTTY /\ env.errTTY
  /\ out[2].fn = "log" /\ ~HasCodes(out[2])
  /\ out[3].fn = "warn" /\ out[3].text = <<Yellow, " ", " ", "x", Reset>>
  /\ Len(colorlog.out) = 2 /\ ~HasCodes(colorlog.out[1]) /\ Wrapped(colorlog.out[2])

\* ----------------------------------------------------------------- C25
\* C25: where console.group does not exist, the indentation string of
\* color-log is, after every sequence of calls, as many spaces as the
\* indentation width of trace-console after the same calls: two for each
\* level, the level going up by one with group and down by one, not below
\* 0, with groupEnd.
C25_ColorLogIndentation ==
  ~colorlog.group =>
    /\ IsSpaces(colorlog.indentation, twin["trace-console"].ctx.indentWidth)
    /\ Len(colorlog.indentation) = 2 * twin["trace-console"].ctx.indentLevel

C25_Witness ==
  /\ ~colorlog.group /\ last.op = "log" /\ last.level = 1
  /\ colorlog.indentation = <<" ", " ">>
  /\ twin["trace-console"].ctx.indentWidth = 2
  /\ Len(colorlog.out) = 1 /\ colorlog.out[1].text = <<" ", " ", "x">>

\* ----------------------------------------------------------------- C26
\* The core of the state S of a deferred package: the nesting level, the
\* width, the scope stack and the queue as texts and widths.
Core(S) ==
  LET queue == chain(S.heap, S.ctx.head, Len(S.heap) + 1)
  IN [level |-> S.ctx.indentLevel,
      width |-> S.ctx.indentWidth,
      names |-> S.ctx.names,
      queue |-> [k \in 1..Len(queue) |->
                   <<S.heap[queue[k]].text, S.heap[queue[k]].width>>]]

\* C26: trace-console, trace-color and trace-log, given the same calls,
\* have the same core after every call: the same nesting level, the same
\* scope stack and the same texts and widths in their queues.
C26_SameCore == \A p \in DOMAIN twin : Core(twin[p]) = Core(Cur)

C26_Witness ==
  /\ last.op = "warn" /\ last.level = 1 /\ Len(heap) = 2
  /\ Core(Cur).queue = << <<<<">", " ", "a">>, 0>>, <<<<"x">>, 2>> >>
  /\ Core(Cur).names = <<<<"a">>>>
  /\ heap[2].type = WARN
  /\ twin["trace-console"].heap[2].type = WARN
  /\ twin["trace-log"].heap[2].type = NOTYPE

\* ----------------------------------------------------------------- C27
\* C27: in every state head is null exactly when tail is null, and then
\* the queue is empty; otherwise tail.next is null and the chain from head
\* ends at tail without passing twice through a message; the chain has one
\* message for each enqueuing call made so far.  A drain makes one console
\* call for each message, after the header.
C27_QueueWellFormed ==
  /\ [](LET queue == Queue
        IN /\ (ctx.head = NULL) <=> (ctx.tail = NULL)
           /\ (ctx.head = NULL) <=> (queue = <<>>)
           /\ ctx.tail # NULL => /\ heap[ctx.tail].next = NULL
                                 /\ queue[Len(queue)] = ctx.tail
           /\ \A i, j \in 1..Len(queue) : queue[i] = queue[j] => i = j
           /\ Len(queue) = Len(sev)
           /\ Len(queue) = Len(heap))
  /\ [][last'.op = "show" =>
          Len(Printed) = IF Queue = <<>> THEN 0 ELSE Len(Queue) + 1]_vars

C27_Witness ==
  /\ last.op = "show" /\ fired = 1
  /\ Len(sev) = 3 /\ Queue = <<1, 2, 3>> /\ ctx.head = 1 /\ ctx.tail = 3
  /\ heap[1].next = 2 /\ heap[2].next = 3 /\ heap[3].next = NULL
  /\ Len(out) = 4

\* ----------------------------------------------------------------- C28
\* S has the nesting level, the width and the scope stack of the current state.
Restores(S) ==
  /\ S.ctx.indentLevel = ctx.indentLevel
  /\ S.ctx.indentWidth = ctx.indentWidth
  /\ S.ctx.names = ctx.names

\* C28: from every state, enter followed by leave, and indent followed by
\* unindent, give back the nesting level, the width and the scope stack;
\* unindent followed by indent, and leave followed by enter, give back the
\* level exactly when it was greater than 0.  The same holds of the calls
\* as they are made: a leave right after an enter, an unindent right after
\* an indent, and the two reverse orders.
C28_RoundTrips ==
  /\ [](/\ \A a \in LinesEnterArgs, b \in LinesLeaveArgs :
             Restores(leave(enter(Cur, a), b))
        /\ \A a \in IndentArgs : Restores(unindent(indentOp(Cur, a)))
        /\ \A a \in IndentArgs :
             (indentOp(unindent(Cur), a).ctx.indentLevel = ctx.indentLevel)
               <=> ctx.indentLevel > 0
        /\ \A a \in LinesEnterArgs, b \in LinesLeaveArgs :
             (enter(leave(Cur, b), a).ctx.indentLevel = ctx.indentLevel)
               <=> ctx.indentLevel > 0)
  /\ [][(last.op = "enter" /\ last'.op = "leave") =>
          (/\ ctx'.indentLevel = last.level
           /\ ctx'.indentWidth = last.level * IndentSizeInit
           /\ Append(ctx'.names, ctx.names[Len(ctx.names)]) = ctx.names)]_vars
  /\ [][(last.op \in {"indent", "group"} /\ last'.op \in {"unindent", "groupEnd"}) =>
          (/\ ctx'.indentLevel = last.level
           /\ ctx'.indentWidth = last.level * IndentSizeInit
           /\ ctx'.names = ctx.names)]_vars
  /\ [][(/\ last.op \in {"unindent", "groupEnd", "leave"}
          /\ last'.op \in {"indent", "group", "enter"}) =>
          ((ctx'.indentLevel = last.level) <=> last.level > 0)]_vars

C28_Witness ==
  /\ last.op = "leave" /\ last.level = 2 /\ ctx.indentLevel = 1
  /\ ctx.indentWidth = IndentSizeInit /\ ctx.names = <<>>
  /\ Len(heap) = 2
  /\ heap[1].text = <<">", " ", "a", " ", "b">> /\ heap[1].width = IndentSizeInit
  /\ heap[2].text = <<"<", " ", "a">> /\ heap[2].width = IndentSizeInit

\* ----------------------------------------------------------------- C29
\* C29: leave takes a name off the scope stack whenever the stack is not
\* empty, whatever the nesting level, and lowers the level whenever it is
\* greater than 0, whatever the stack; unindent and groupEnd lower the
\* level in the same way and leave the stack as it is.
C29_LeaveStackAndLevelApart ==
  /\ [][\A b \in LinesLeaveArgs :
          Leave(b) =>
            /\ Len(ctx'.names) = Max(Len(ctx.names) - 1, 0)
            /\ ctx'.names = SubSeq(ctx.names, 1, Len(ctx'.names))
            /\ ctx'.indentLevel = Max(ctx.indentLevel - 1, 0)
            /\ LeaveContent(NewMessage) = FourCases(TopName, format(b))]_vars
  /\ [][(Unindent \/ GroupEnd) =>
          /\ ctx'.names = ctx.names
          /\ ctx'.indentLevel = Max(ctx.indentLevel - 1, 0)]_vars

\* enter('a b'); unindent(); leave(): the name is taken at level 0.
C29_Witness ==
  /\ last.op = "leave" /\ last.level = 0 /\ ctx.indentLevel = 0
  /\ ctx.names = <<>> /\ Len(heap) = 2
  /\ heap[1].text = <<">", " ", "a", " ", "b">> /\ heap[1].width = 0
  /\ heap[2].text = <<"<", " ", "a">> /\ heap[2].width = 0
====
